---- MODULE Spec2Model ----
(***************************************************************************)
(* A model of src/ai-chatbot.py: the ToolKit registry, the dispatch of one *)
(* tool-call request (Chatbot._execute_tool_call) and one conversational   *)
(* turn (Chatbot.process_message) over the bounded conversation history.   *)
(*                                                                         *)
(* The program is single-threaded; one call of process_message is one      *)
(* step of the model.  The completion service, the data providers behind   *)
(* the tools and the user are the environment: what they supply is chosen  *)
(* nondeterministically from small sets.                                   *)
(***************************************************************************)
EXTENDS Naturals, Sequences, FiniteSets, TLC

VARIABLES
    conversation_history, \* Chatbot.conversation_history: sequence of messages
    turn,                 \* number of process_message calls made so far
    spent,                \* how much of the environment's MaxDeviations is used
    before,               \* last call: conversation_history when it was entered
    user_input,           \* last call: its argument
    completion,           \* last call: what the completion service did
    reply,                \* last call: the value it returned to its caller
    escaped,              \* last call: TRUE iff an exception left process_message
    events                \* last call: service requests, dispatches and tool
                          \*            executions, in the order they happened

vars == <<conversation_history, turn, spent, before, user_input, completion,
          reply, escaped, events>>

-----------------------------------------------------------------------------
(* Bounds of the model.                                                    *)

\* process_message calls in one session
MaxTurns == 12

\* Ways in which the environment may leave the plain exchange (the user says
\* PlainInput, the service answers PlainContent) in one session: each
\* tool-call request counts one, any other non-plain completion counts one,
\* a non-plain user input counts one.
MaxDeviations == 2

(* Program constant: the history cap of process_message.                   *)
MaxHistory == 20

-----------------------------------------------------------------------------
(* Python values and call outcomes.                                        *)

\* A value with its Python type.  v is the text of a str, "" otherwise.
Str(s) == [t |-> "str", v |-> s]
None == [t |-> "NoneType", v |-> ""]
List == [t |-> "list", v |-> ""]

IsStr(x) == x.t = "str"

\* Python truth value: None and "" are false; the tool catalog, a non-empty
\* list, is true.
Truthy(x) == IF x.t = "str" THEN x.v # "" ELSE x.t = "list"

\* The outcome of a call: a returned value, or a raised Exception whose
\* str() is msg.  ran is the sequence of callables whose body was entered.
Return(x, ran) == [raised |-> FALSE, val |-> x, msg |-> "", ran |-> ran]
Raise(m, ran) == [raised |-> TRUE, val |-> None, msg |-> m, ran |-> ran]

-----------------------------------------------------------------------------
(* class ToolKit                                                           *)

\* What the outside world does when a tool reaches for it.
Environments == {"ok", "down"}

\* str(e) of the exception a provider that is down raises inside a tool.
ProviderError == "connection refused"

\* ToolKit.get_weather: the provider's temp and description, or the error
\* text of its own except clause.
get_weather(city, env) == IF env = "ok" THEN Str("Current weather in " \o city \o ": 15°C, clear sky") ELSE Str("Error fetching weather data: " \o ProviderError)

\* ToolKit.get_news: the titles of the articles, one per line.
get_news(topic, env) == IF env = "ok" THEN Str("- Headline one\n- Headline two") ELSE Str("Error fetching news: " \o ProviderError)

\* ToolKit.get_system_metrics
get_system_metrics(env) == IF env = "ok" THEN Str("System Metrics:\nCPU: 3.0%\nMemory: 41.0%\nDisk: 57.0%") ELSE Str("Error fetching system metrics: " \o ProviderError)

\* ToolKit.get_current_time_and_date: no except clause, strftime of now().
get_current_time_and_date == Str("11/02/2026, 10:00:00")

\* ToolKit.ask_wolfram: the text of the first result.
ask_wolfram(query, env) == IF env = "ok" THEN Str("4") ELSE Str("Error querying Wolfram Alpha: " \o ProviderError)

\* ToolKit.get_tool_definitions: the names of the catalog, in order.
get_tool_definitions == <<"get_weather", "get_news", "get_system_metrics", "get_current_time_and_date", "ask_wolfram">>

\* The names the catalog advertises to the completion service.
CatalogNames == {get_tool_definitions[i] : i \in DOMAIN get_tool_definitions}

\* The keyword parameters of each tool method (self left out).
signature(name) ==
    CASE name = "get_weather" -> [required |-> {"city"}, optional |-> {}]
      [] name = "get_news" -> [required |-> {}, optional |-> {"topic"}]
      [] name = "ask_wolfram" -> [required |-> {"query"}, optional |-> {}]
      [] OTHER -> [required |-> {}, optional |-> {}]

\* The body of a tool method, entered with keyword arguments that bind.
tool_body(name, args, env) ==
    CASE name = "get_weather" -> get_weather(args["city"], env)
      [] name = "get_news" -> get_news(IF "topic" \in DOMAIN args THEN Str(args["topic"]) ELSE None, env)
      [] name = "get_system_metrics" -> get_system_metrics(env)
      [] name = "get_current_time_and_date" -> get_current_time_and_date
      [] name = "ask_wolfram" -> ask_wolfram(args["query"], env)

\* Python binds the keywords before the body is entered: extra are the
\* keywords the signature does not know, missing its required parameters
\* left unset; either raises TypeError (extra is reported first).
bind_and_run(name, args, env, extra, missing) ==
    IF extra # {}
    THEN Raise("ToolKit." \o name \o "() got an unexpected keyword argument '" \o (CHOOSE k \in extra : TRUE) \o "'", <<>>)
    ELSE IF missing # {}
    THEN Raise("ToolKit." \o name \o "() missing 1 required positional argument: '" \o (CHOOSE k \in missing : TRUE) \o "'", <<>>)
    ELSE IF name = "get_tool_definitions"
    THEN Return(List, <<name>>)
    ELSE Return(tool_body(name, args, env), <<name>>)

\* function(**function_args) for a bound method or the classmethod.
call_method(name, args, env) == bind_and_run(name, args, env, DOMAIN args \ (signature(name).required \cup signature(name).optional), signature(name).required \ DOMAIN args)

\* getattr(self.toolkit, function_name, None): what the name resolves to on
\* a ToolKit instance.  Besides the five tool methods the instance carries
\* the classmethod get_tool_definitions and the attributes api_keys (a dict
\* of four keys) and wolfram_client set in __init__.
getattr(function_name) ==
    IF function_name \in CatalogNames THEN "method"
    ELSE IF function_name = "get_tool_definitions" THEN "classmethod"
    ELSE IF function_name = "api_keys" THEN "dict"
    ELSE IF function_name = "wolfram_client" THEN "Client"
    ELSE "None"

-----------------------------------------------------------------------------
(* class Chatbot                                                           *)

\* Chatbot.system_prompt (its text shortened)
system_prompt == "You are a helpful assistant with access to various tools."

\* The argument strings the completion service is modelled as sending.
ArgumentStrings == {"{}", "{\"city\": \"London\"}", "{\"query\": \"2+2\"}", "{\"city\": "}

\* json.loads on the argument strings: the decoded mapping, or the
\* JSONDecodeError the truncated object raises.
json_loads(s) ==
    CASE s = "{}" -> Return(<<>>, <<>>)
      [] s = "{\"city\": \"London\"}" -> Return([city |-> "London"], <<>>)
      [] s = "{\"query\": \"2+2\"}" -> Return([query |-> "2+2"], <<>>)
      [] OTHER -> Raise("Expecting value: line 1 column 10 (char 9)", <<>>)

\* Chatbot._format_messages
_format_messages(history, input) == <<[role |-> "system", content |-> system_prompt]>> \o history \o <<[role |-> "user", content |-> input]>>

\* The try/except of _execute_tool_call around function(**function_args):
\* an attribute that is no callable raises TypeError at the call.
guarded_call(function_name, called) == IF called.raised THEN Return(Str("Error executing " \o function_name \o ": " \o called.msg), called.ran) ELSE called

\* _execute_tool_call from the lookup on, function_args decoded.
lookup_and_call(function_name, function_args, function, env) ==
    IF function = "None"
    THEN Return(Str("Function " \o function_name \o " not found. Please try again."), <<>>)
    ELSE guarded_call(function_name,
                      IF function \in {"method", "classmethod"}
                      THEN call_method(function_name, function_args, env)
                      ELSE Raise("'" \o function \o "' object is not callable", <<>>))

\* _execute_tool_call once json.loads is through: its raise is not caught.
after_loads(tool_call, function_args) == IF function_args.raised THEN Raise(function_args.msg, <<>>) ELSE lookup_and_call(tool_call.name, function_args.val, getattr(tool_call.name), tool_call.env)

\* Chatbot._execute_tool_call.  json.loads runs before the lookup and
\* outside the try; the lookup is by attribute; only the call is guarded.
_execute_tool_call(tool_call) == after_loads(tool_call, json_loads(tool_call.arguments))

\* The callables request i of the turn entered, as events.
executions(ran, i) == [k \in DOMAIN ran |-> [op |-> "execute", name |-> ran[k], index |-> i]]

\* The for loop of process_message over tool_calls[i..]: responses collects
\* the results, log the dispatches and executions; a raise ends the loop.
RECURSIVE dispatch_loop(_, _, _, _)
RECURSIVE loop_step(_, _, _, _, _)
loop_step(tool_calls, i, responses, log, result) ==
    IF result.raised
    THEN [raised |-> TRUE, msg |-> result.msg, responses |-> responses, log |-> log \o executions(result.ran, i)]
    ELSE dispatch_loop(tool_calls, i + 1, Append(responses, result.val), log \o executions(result.ran, i))

dispatch_loop(tool_calls, i, responses, log) ==
    IF i > Len(tool_calls)
    THEN [raised |-> FALSE, msg |-> "", responses |-> responses, log |-> log]
    ELSE loop_step(tool_calls, i, responses, Append(log, [op |-> "dispatch", name |-> tool_calls[i].name, index |-> i]), _execute_tool_call(tool_calls[i]))

\* The text of "\n".join(responses) when every item is a str.
RECURSIVE joined(_)
joined(responses) ==
    IF Len(responses) = 0 THEN ""
    ELSE IF Len(responses) = 1 THEN responses[1].v
    ELSE responses[1].v \o "\n" \o joined(Tail(responses))

\* The index of the first item of responses that is not a str, 0 if none.
RECURSIVE first_non_str(_, _)
first_non_str(responses, i) == IF i > Len(responses) THEN 0 ELSE IF ~IsStr(responses[i]) THEN i ELSE first_non_str(responses, i + 1)

\* "\n".join(responses): TypeError at the first item that is not a str.
join_at(responses, bad) == IF bad = 0 THEN Return(Str(joined(responses)), <<>>) ELSE Raise("sequence item " \o ToString(bad - 1) \o ": expected str instance, " \o responses[bad].t \o " found", <<>>)

join(responses) == join_at(responses, first_non_str(responses, 1))

\* A variant that falls back to the literal only when content is None.
direct_response_absent_only(content) == IF content = None THEN Str("No response generated.") ELSE content

\* message.content or "No response generated."
direct_response(content) == IF Truthy(content) THEN content ELSE Str("No response generated.")

\* The trim at the end of process_message: conversation_history[-20:].
trim(history) == IF Len(history) > MaxHistory THEN SubSeq(history, Len(history) - MaxHistory + 1, Len(history)) ELSE history

\* The completion request that opens process_message, as an event: the
\* model asked and the messages _format_messages built for it.
create_event(history, input) == [op |-> "completion", name |-> "gpt-4o", index |-> 0, messages |-> _format_messages(history, input)]

\* What the try block hands on: whether it raised, str(e), the response,
\* the history at the point the block was left, and the events so far.
Raised(msg, history, log) == [raised |-> TRUE, msg |-> msg, response |-> None, history |-> history, log |-> log]

\* The end of the try block: the assistant message is appended, the history
\* trimmed and the response returned; a raise of join skips all three.
conclude(history, response, log) ==
    IF response.raised THEN Raised(response.msg, history, log)
    ELSE [raised |-> FALSE, msg |-> "", response |-> response.val,
          history |-> trim(Append(history, [role |-> "assistant", content |-> response.val.v])),
          log |-> log]

\* A variant that sends the tool results back to the completion service
\* and answers with its summary.
tool_branch_requery(history, loop) == IF loop.raised THEN Raised(loop.msg, history, loop.log) ELSE conclude(history, Return(Str("It is 15 degrees in London."), <<>>), Append(loop.log, create_event(history, "")))

\* The branch "if tool_calls": the loop, then the join of its results.
tool_branch(history, loop) == IF loop.raised THEN Raised(loop.msg, history, loop.log) ELSE conclude(history, join(loop.responses), loop.log)

\* The try block from the user message on: history already holds it.
respond(history, message, log) ==
    IF Len(message.tool_calls) > 0
    THEN tool_branch(history, dispatch_loop(message.tool_calls, 1, <<>>, log))
    ELSE conclude(history, Return(direct_response(message.content), <<>>), log)

\* A variant that records the user message before it asks the service.
try_block_append_first(history, input, service) ==
    IF service.kind = "error"
    THEN Raised(service.msg, Append(history, [role |-> "user", content |-> input]), <<create_event(history, input)>>)
    ELSE respond(Append(history, [role |-> "user", content |-> input]), service, <<create_event(history, input)>>)

\* The try block of process_message: the completion request comes first,
\* and its failure leaves the block before the history is touched.
try_block(history, input, service) ==
    IF service.kind = "error"
    THEN Raised(service.msg, history, <<create_event(history, input)>>)
    ELSE respond(Append(history, [role |-> "user", content |-> input]), service, <<create_event(history, input)>>)

\* A variant whose handler lets the exception go on to the caller.
except_clause_reraise(msg) == [reply |-> None, escaped |-> TRUE]

\* The except clause of process_message: the exception becomes the reply.
except_clause(msg) == [reply |-> Str("Error processing message: " \o msg), escaped |-> FALSE]

\* What process_message leaves behind, given how its try block ended.
outcome(body) == [history |-> body.history, reply |-> IF body.raised THEN except_clause(body.msg).reply ELSE body.response, escaped |-> body.raised /\ except_clause(body.msg).escaped, events |-> body.log]

\* Chatbot.process_message
process_message(history, input, service) == outcome(try_block(history, input, service))

-----------------------------------------------------------------------------
(* The environment.                                                        *)

\* The plain exchange.
PlainInput == "hi"
PlainContent == "Hello"

UserInputs == {PlainInput, "weather in London?"}

\* message.content of a completion: absent, empty or text.
Contents == {None, Str(""), Str(PlainContent)}

\* Tool-call requests the completion service may send: the function name,
\* the JSON argument string, and what the world does if the tool runs.
ToolCalls ==
    {[name |-> "get_weather", arguments |-> "{\"city\": \"London\"}", env |-> e] : e \in Environments}
    \cup {[name |-> n, arguments |-> "{}", env |-> "ok"] :
            n \in {"get_weather", "get_news", "get_system_metrics", "get_current_time_and_date",
                   "delete_all_files", "api_keys", "get_tool_definitions"}}
    \cup {[name |-> "ask_wolfram", arguments |-> "{\"query\": \"2+2\"}", env |-> "ok"],
          [name |-> "get_current_time_and_date", arguments |-> "{\"city\": \"London\"}", env |-> "ok"],
          [name |-> "delete_all_files", arguments |-> "{\"city\": ", env |-> "ok"]}

\* What the completion service may do with one request, given that it may
\* send at most n tool-call requests: fail, answer directly, or ask for tools.
Completions(n) ==
    {[kind |-> "error", msg |-> "Connection error.", content |-> None, tool_calls |-> <<>>]}
    \cup {[kind |-> "message", msg |-> "", content |-> c, tool_calls |-> <<>>] : c \in Contents}
    \cup {[kind |-> "message", msg |-> "", content |-> None, tool_calls |-> tc] :
            tc \in UNION {[1..k -> ToolCalls] : k \in 1..n}}

\* What a turn costs of MaxDeviations.
Cost(input, service) ==
    (IF input = PlainInput THEN 0 ELSE 1)
    + (IF Len(service.tool_calls) > 0 THEN Len(service.tool_calls)
       ELSE IF service.kind = "message" /\ service.content = Str(PlainContent) THEN 0 ELSE 1)

-----------------------------------------------------------------------------
(* The state machine.                                                      *)

\* Chatbot.__init__: an empty history; no call made yet.
Init ==
    /\ conversation_history = <<>>
    /\ turn = 0
    /\ spent = 0
    /\ before = <<>>
    /\ user_input = ""
    /\ completion = [kind |-> "none", msg |-> "", content |-> None, tool_calls |-> <<>>]
    /\ reply = None
    /\ escaped = FALSE
    /\ events = <<>>

\* The state after a call of process_message that ended as r.
returned(r) ==
    /\ conversation_history' = r.history
    /\ reply' = r.reply
    /\ escaped' = r.escaped
    /\ events' = r.events

\* One iteration of main's loop: the user's line goes to process_message.
ProcessMessage ==
    /\ turn < MaxTurns
    /\ \E input \in UserInputs, service \in Completions(MaxDeviations - spent) :
        /\ spent + Cost(input, service) <= MaxDeviations
        /\ returned(process_message(conversation_history, input, service))
        /\ before' = conversation_history
        /\ user_input' = input
        /\ completion' = service
        /\ spent' = spent + Cost(input, service)
        /\ turn' = turn + 1

Next == ProcessMessage

Spec == Init /\ [][Next]_vars

-----------------------------------------------------------------------------
(* Properties of the last call of process_message.                         *)

\* A call has been made and has returned.
Called == turn > 0

\* The tool-call requests of the last completion response.
Requests == completion.tool_calls

IsDispatch(e) == e.op = "dispatch"
IsExecute(e) == e.op = "execute"
IsCompletion(e) == e.op = "completion"

\* The requests the last call dispatched, the callables it entered and the
\* completion requests it issued, in order.
Dispatched == SelectSeq(events, IsDispatch)
Executed == SelectSeq(events, IsExecute)
Queried == SelectSeq(events, IsCompletion)

\* What _execute_tool_call does with request i of the last response.
Result(i) == _execute_tool_call(Requests[i])

\* Every request of the last response came back from dispatch as a str.
AllResultsStr == \A i \in DOMAIN Requests : ~Result(i).raised /\ IsStr(Result(i).val)

\* The per-call results of the last response, joined with newlines.
JoinedResults == Str(joined([i \in DOMAIN Requests |-> Result(i).val]))

UserMessage == [role |-> "user", content |-> user_input]
AssistantMessage == [role |-> "assistant", content |-> reply.v]

\* The last MaxHistory entries of a sequence.
LastEntries(h) == SubSeq(h, IF Len(h) > MaxHistory THEN Len(h) - MaxHistory + 1 ELSE 1, Len(h))

JsonError == "Expecting value: line 1 column 10 (char 9)"

\* C1: after every process_message call the conversation history holds at
\* most 20 entries.
C1_HistoryAtMostTwenty == Len(conversation_history) <= MaxHistory

\* C2: every process_message call yields one reply that is a string, and no
\* exception escapes it, whatever the service, the requests and the tools do.
C2_OneReplyNoEscape == Called => IsStr(reply) /\ ~escaped

\* C2 witness: a call whose dispatch raised came back with an error reply.
C2_Witness ==
    /\ Called
    /\ Len(Requests) > 0
    /\ \E i \in DOMAIN Requests : Result(i).raised
    /\ reply = Str("Error processing message: " \o JsonError)
    /\ ~escaped

\* C3: dispatch of one tool-call request is total: every request that
\* process_message hands to _execute_tool_call comes back as a string, and
\* nothing is raised past the dispatch boundary.
C3_DispatchTotal == \A k \in DOMAIN Dispatched : ~Result(Dispatched[k].index).raised /\ IsStr(Result(Dispatched[k].index).val)

\* C4: a response with a single tool-call request whose function name is
\* not one of the five catalog names is answered with exactly
\* "Function <name> not found. Please try again.", no tool is executed and
\* no exception escapes.
C4_UnknownNameNotFound ==
    (Called /\ Len(Requests) = 1 /\ Requests[1].name \notin CatalogNames)
        => /\ reply = Str("Function " \o Requests[1].name \o " not found. Please try again.")
           /\ Executed = <<>>
           /\ ~escaped

\* C5: when the completion request itself fails, the reply is
\* "Error processing message: <message>", the history is left exactly as it
\* was and no tool is dispatched or executed; and the call that follows a
\* failed one proceeds as it would have from the history before the failure.
C5_ServiceFailureLeavesHistory ==
    [][turn' = turn + 1 =>
        /\ completion'.kind = "error" =>
            /\ reply' = Str("Error processing message: " \o completion'.msg)
            /\ ~escaped'
            /\ conversation_history' = conversation_history
            /\ events' = <<create_event(conversation_history, user_input')>>
        /\ completion.kind = "error" =>
            /\ conversation_history' = process_message(before, user_input', completion').history
            /\ reply' = process_message(before, user_input', completion').reply]_vars

\* C5 witness: the service failed on a call made with a non-empty history,
\* and the session goes on.
C5_Witness ==
    /\ Called
    /\ completion.kind = "error"
    /\ Len(before) > 0
    /\ conversation_history = before
    /\ turn < MaxTurns

\* C6: trimming is FIFO: when a call's appends take the history past 20
\* entries, the history after the call is exactly the last 20 entries of
\* the history before it followed by the turn's user and assistant
\* messages, which are its final two.
C6_TrimFifo ==
    (Called /\ completion.kind = "message" /\ Len(before) + 2 > MaxHistory)
        => conversation_history = LastEntries(before \o <<UserMessage, AssistantMessage>>)

\* C7: when the response carries n >= 1 tool-call requests, each of the n
\* is dispatched exactly once, in response order, and the reply is the n
\* result strings joined with newlines; a failure in one request does not
\* suppress the others.
C7_AllDispatchedAndJoined ==
    (Called /\ Len(Requests) >= 1)
        => /\ Dispatched = [i \in DOMAIN Requests |-> [op |-> "dispatch", name |-> Requests[i].name, index |-> i]]
           /\ AllResultsStr
           /\ reply = JoinedResults

\* C8 as stated: without tool-call requests the reply is the response's
\* content, or "No response generated." if content is absent, and the
\* history gains the user message and then the assistant message.
C8_AsStated ==
    (Called /\ completion.kind = "message" /\ Len(Requests) = 0)
        => /\ reply = (IF completion.content = None THEN Str("No response generated.") ELSE completion.content)
           /\ conversation_history = LastEntries(before \o <<UserMessage, AssistantMessage>>)

\* C8 amended: without tool-call requests the reply is the response's
\* content when that is a non-empty string, and "No response generated."
\* when content is absent or empty; the history gains the user message and
\* then the assistant message holding the reply (and is then cut to its
\* last 20 entries).
C8_DirectReply ==
    (Called /\ completion.kind = "message" /\ Len(Requests) = 0)
        => /\ reply = (IF completion.content \in {None, Str("")} THEN Str("No response generated.") ELSE completion.content)
           /\ conversation_history = LastEntries(before \o <<UserMessage, AssistantMessage>>)
           /\ Len(before) + 2 <= MaxHistory => conversation_history = before \o <<UserMessage, AssistantMessage>>

\* C8 witness: an empty content was answered with the literal.
C8_Witness ==
    /\ Called
    /\ completion.kind = "message"
    /\ Len(Requests) = 0
    /\ completion.content = Str("")
    /\ reply = Str("No response generated.")
    /\ Len(conversation_history) = Len(before) + 2

C10_CompleteTurns ==
    Called =>
        /\ Len(conversation_history) % 2 = 0
        /\ \A i \in DOMAIN conversation_history :
            /\ conversation_history[i].role # "system"
            /\ conversation_history[i].role = (IF i % 2 = 1 THEN "user" ELSE "assistant")
        /\ conversation_history # before =>
            /\ Len(conversation_history) >= 2
            /\ SubSeq(conversation_history, Len(conversation_history) - 1, Len(conversation_history)) = <<UserMessage, AssistantMessage>>

====
